---- MODULE Spec2Model ----
(***************************************************************************)
(* Model of singer_sdk/streams/core.py: one Stream object syncing its      *)
(* records, with the bookmark helpers of singer_sdk/helpers/_state.py.     *)
(*                                                                         *)
(* Replication-key values and wall-clock times are small naturals; an      *)
(* optional value (Python None) is the empty sequence, Some(v) is <<v>>.   *)
(* Optional names (replication key, forced method) use the string "None".  *)
(***************************************************************************)
EXTENDS Integers, Sequences, FiniteSets, TLC

\* ---------------------------------------------------------------- bounds
MaxVal == 2
MaxClock == 2
MaxRecords == 3
MaxFreq == 3
MaxLimit == 1

\* ------------------------------------------------------------- constants
REPLICATION_FULL_TABLE == "FULL_TABLE"
REPLICATION_INCREMENTAL == "INCREMENTAL"
REPLICATION_LOG_BASED == "LOG_BASED"

NoName == "None"
None == << >>
Some(v) == <<v>>
Val(o) == o[1]

RK == "rk"
PartitionIds == {"a", "b"}
Values == 1..MaxVal
\* a row is written as the optional value of its replication-key field;
\* EmptyRow is the falsy row that _increment_stream_state passes over.
\* get_records yields the rows of a source: mappings that hold the field.
EmptyRow == None
Rows == {Some(v) : v \in Values}

\* ------------------------------------------------------------ state dicts
NoMarkers == [replication_key |-> NoName, replication_key_value |-> None]
EmptyState ==
    [replication_key |-> NoName, replication_key_value |-> None,
     progress_markers |-> NoMarkers]

VARIABLES
    forced_replication_method,  \* Stream.forced_replication_method
    replication_key,            \* Stream._replication_key
    rk_is_datetime,             \* is_datetime_type(schema.properties[replication_key])
    is_sorted,                  \* Stream.is_sorted
    state_msg_frequency,        \* Stream.STATE_MSG_FREQUENCY
    max_records_limit,          \* Stream._MAX_RECORDS_LIMIT (None or <<L>>)
    partitions_override,        \* a subclass's `partitions` property, if any
    tap_state,                  \* Stream._tap_state, the shared state tree
    seed_state,                 \* tap_state as handed in at construction
    clock,                      \* the latest reading of utc_now()
    pc,                         \* position in sync() / _sync_records()
    error,                      \* exception that left sync(), "None" if none
    error_row,                  \* row number logged with a sorting error
    partitions,                 \* local `partitions` of _sync_records
    part_idx,                   \* index of the loop variable `partition`
    rows_sent,                  \* local `rows_sent` of _sync_records
    pulled,                     \* rows yielded so far by get_records
    out,                        \* messages handed to singer.write_message
    signpost_first,             \* per partition: first value returned by
                                \*   get_replication_key_signpost in this pass
    signpost_last,              \* per partition: latest value it returned
    finalized,                  \* partitions whose finalize has run
    primary_keys,               \* Stream._primary_keys (a list of names)
    tap_input_catalog           \* Stream._tap_input_catalog (None or <<c>>)

vars == <<forced_replication_method, replication_key, rk_is_datetime, is_sorted,
          state_msg_frequency, max_records_limit, partitions_override, tap_state, seed_state, clock,
          pc, error, error_row, partitions, part_idx, rows_sent, pulled, out,
          signpost_first, signpost_last, finalized, primary_keys,
          tap_input_catalog>>

config == <<forced_replication_method, replication_key, rk_is_datetime,
            is_sorted, state_msg_frequency, max_records_limit,
            partitions_override, seed_state, primary_keys,
            tap_input_catalog>>

\* --------------------------------------------------------- Stream getters
\* variant: the state helpers are handed the name of the other stream
name_Other == "other"

\* Stream.name, the key of this stream's entry in the state tree
name == "this"

\* variant: the forced method is not consulted
replication_method_IgnoresForced ==
    IF replication_key # NoName THEN REPLICATION_INCREMENTAL
    ELSE REPLICATION_FULL_TABLE

\* Stream.replication_method
replication_method ==
    IF forced_replication_method # NoName THEN forced_replication_method
    ELSE IF replication_key # NoName THEN REPLICATION_INCREMENTAL
    ELSE REPLICATION_FULL_TABLE

\* Stream.is_timestamp_replication_key
is_timestamp_replication_key ==
    IF replication_key = NoName THEN FALSE ELSE rk_is_datetime

\* Stream.get_replication_key_signpost, called when utc_now() is `now`
get_replication_key_signpost(p, now) ==
    IF is_timestamp_replication_key THEN Some(now) ELSE None

\* ------------------------------------------------- helpers/_state.py
\* The bookmark helpers are imported by core.py (lines 38-45); they follow
\* the specification of the State Store (4.1) and the Checkpoint Engine
\* (4.4): progress markers live in the entry's own dict, a candidate above
\* the ceiling is passed over, a sorted stream rejects a candidate below
\* the marker maximum, finalize promotes the marker maximum.  core.py hands
\* them self.tap_state and self.name.
\* index of the partition entry with this context in the stream's state, 0
\* when there is none
PartitionIndex(ts, partition) ==
    IF \E i \in 1..Len(ts[name].partitions) : ts[name].partitions[i].context = partition
    THEN CHOOSE i \in 1..Len(ts[name].partitions) :
             ts[name].partitions[i].context = partition
    ELSE 0

\* get_writeable_state_dict: the tree after get-or-create of the entry
EnsureState(ts, partition) ==
    IF partition = NoName \/ PartitionIndex(ts, partition) # 0 THEN ts
    ELSE [ts EXCEPT ![name].partitions =
              Append(@, [context |-> partition, state |-> EmptyState])]

\* get_writeable_state_dict: the entry it returns
ReadState(ts, partition) ==
    IF partition = NoName THEN ts[name].state
    ELSE IF PartitionIndex(ts, partition) # 0
         THEN ts[name].partitions[PartitionIndex(ts, partition)].state
         ELSE EmptyState

\* a write through the reference get_writeable_state_dict returned
WriteState(ts, partition, s) ==
    IF partition = NoName THEN [ts EXCEPT ![name].state = s]
    ELSE [EnsureState(ts, partition) EXCEPT
              ![name].partitions[PartitionIndex(EnsureState(ts, partition),
                                               partition)].state = s]

\* get_state_partitions_list
get_state_partitions_list(ts) == ts[name].partitions

\* reset_state_progress_markers
reset_state_progress_markers(s) == [s EXCEPT !.progress_markers = NoMarkers]

Max(a, b) == IF a >= b THEN a ELSE b

\* increment_state: [raised, state]
increment_state(s, rk, signpost, latest_record, sorted) ==
    LET candidate == Val(latest_record)
        M == s.progress_markers.replication_key_value
    IN  IF signpost # None /\ candidate > Val(signpost)
        THEN [raised |-> FALSE, state |-> s]
        ELSE IF sorted /\ M # None /\ candidate < Val(M)
        THEN [raised |-> TRUE, state |-> s]
        ELSE [raised |-> FALSE,
              state |-> [s EXCEPT !.progress_markers =
                  [replication_key |-> rk,
                   replication_key_value |->
                       IF M = None THEN Some(candidate)
                       ELSE Some(Max(Val(M), candidate))]]]

\* finalize_state_progress_markers
finalize_state_progress_markers(s) ==
    IF s.progress_markers.replication_key_value # None
    THEN [replication_key |-> s.progress_markers.replication_key,
          replication_key_value |-> s.progress_markers.replication_key_value,
          progress_markers |-> NoMarkers]
    ELSE reset_state_progress_markers(s)

\* ------------------------------------------------------ Stream methods
\* Stream.get_stream_or_partition_state
get_stream_or_partition_state(ts, partition) == ReadState(ts, partition)

\* variant: the partitions held in state are not looked at
StatePartitions_Empty(ts) == << >>

\* Stream.partitions: contexts of the partitions already in state, or None
StatePartitions(ts) ==
    [i \in 1..Len(get_state_partitions_list(ts)) |->
        get_state_partitions_list(ts)[i].context]

\* does _increment_stream_state reach the increment_state call for this row
ReachesIncrement(latest_record) ==
    /\ latest_record # EmptyRow
    /\ replication_method \in {REPLICATION_INCREMENTAL, REPLICATION_LOG_BASED}
    /\ replication_key # NoName

\* variant: a missing replication key is passed over without an error
_increment_stream_state_NoKeyCheck(ts, latest_record, p, now) ==
    LET ts1 == EnsureState(ts, p)
        state_dict == get_stream_or_partition_state(ts1, p)
    IN  IF ~ReachesIncrement(latest_record)
        THEN [error |-> "None", tap_state |-> ts1]
        ELSE LET r == increment_state(state_dict, replication_key,
                          get_replication_key_signpost(p, now),
                          latest_record, is_sorted)
             IN  IF r.raised
                 THEN [error |-> "InvalidStreamSortException", tap_state |-> ts1]
                 ELSE [error |-> "None",
                       tap_state |-> WriteState(ts1, p, r.state)]

\* Stream._increment_stream_state, called when utc_now() is `now`:
\* [error, tap_state]
_increment_stream_state(ts, latest_record, p, now) ==
    LET ts1 == EnsureState(ts, p)
        state_dict == get_stream_or_partition_state(ts1, p)
    IN  IF latest_record = EmptyRow THEN [error |-> "None", tap_state |-> ts1]
        ELSE IF replication_method \notin
                    {REPLICATION_INCREMENTAL, REPLICATION_LOG_BASED}
        THEN [error |-> "None", tap_state |-> ts1]
        ELSE IF replication_key = NoName
        THEN [error |-> "ValueError", tap_state |-> ts1]
        ELSE LET r == increment_state(state_dict, replication_key,
                          get_replication_key_signpost(p, now),
                          latest_record, is_sorted)
             IN  IF r.raised
                 THEN [error |-> "InvalidStreamSortException", tap_state |-> ts1]
                 ELSE [error |-> "None",
                       tap_state |-> WriteState(ts1, p, r.state)]

\* messages
SchemaMessage == [type |-> "SCHEMA"]
\* variant: the record message does not carry the row
RecordMessage_Blank(partition, row) ==
    [type |-> "RECORD", partition |-> partition, record |-> EmptyRow]

RecordMessage(partition, row) ==
    [type |-> "RECORD", partition |-> partition, record |-> row]
StateMessage(ts) == [type |-> "STATE", value |-> ts]

\* Stream._write_state_message
_write_state_message(o, ts) == Append(o, StateMessage(ts))

\* Stream._write_record_message
_write_record_message(o, partition, row) == Append(o, RecordMessage(partition, row))

\* Stream.partitions (or the subclass's override of it)
StreamPartitions(ts) ==
    IF partitions_override.overridden THEN partitions_override.list
    ELSE StatePartitions(ts)

\* variant: the loop variable stays at the first partition
partition_Stuck == partitions[1]

\* the loop variable `partition` of _sync_records
partition == partitions[part_idx]

\* ------------------------------------------------------------------ Init
Keys == PartitionIds \cup {NoName}

PlainState ==
    [replication_key |-> RK, replication_key_value |-> Some(1),
     progress_markers |-> NoMarkers]

\* an entry an interrupted run left behind: its markers were never promoted
LeftoverState ==
    [replication_key |-> RK, replication_key_value |-> Some(1),
     progress_markers |-> [replication_key |-> RK,
                           replication_key_value |-> Some(2)]]

SeedStates == {EmptyState, PlainState, LeftoverState}

SeedPartitionLists ==
    { <<[context |-> "a", state |-> LeftoverState],
        [context |-> "b", state |-> EmptyState]>>,
      <<[context |-> "a", state |-> PlainState],
        [context |-> "b", state |-> EmptyState]>> }

\* the entry of another stream of the tap in the same tree
SeedOther == [state |-> PlainState, partitions |-> << >>]

\* the persisted state of an earlier run: bookmarks at stream level for an
\* unpartitioned stream, in the partition entries for a partitioned one
SeedTrees ==
    { [this |-> [state |-> s, partitions |-> << >>], other |-> SeedOther] :
          s \in SeedStates } \cup
    { [this |-> [state |-> EmptyState, partitions |-> ps], other |-> SeedOther] :
          ps \in SeedPartitionLists }

\* the largest replication-key value a bookmark entry holds, 0 if none
HighestIn(s) ==
    Max(IF s.replication_key_value = None THEN 0 ELSE Val(s.replication_key_value),
        IF s.progress_markers.replication_key_value = None THEN 0
        ELSE Val(s.progress_markers.replication_key_value))

\* timestamps persisted by an earlier run are not in the future
SeedNotAfter(ts, now) ==
    /\ HighestIn(ts.this.state) <= now
    /\ \A i \in 1..Len(ts.this.partitions) :
           HighestIn(ts.this.partitions[i].state) <= now

Overrides ==
    { [overridden |-> FALSE, list |-> << >>],
      [overridden |-> TRUE, list |-> << >>],
      [overridden |-> TRUE, list |-> <<"b">>] }

\* the entry of a catalog for this stream, as Catalog.get_stream returns
\* it: absent, or with each setting declared or left out (None)
Methods ==
    {REPLICATION_FULL_TABLE, REPLICATION_INCREMENTAL, REPLICATION_LOG_BASED}

NoEntry ==
    [present |-> FALSE, key_properties |-> None, replication_key |-> NoName,
     replication_method |-> NoName]

CatalogEntries ==
    {NoEntry} \cup
    [present : {TRUE}, key_properties : {None, <<"id", "ts">>},
     replication_key : {NoName, RK},
     replication_method : {NoName} \cup Methods]

Init ==
    /\ forced_replication_method \in
           {NoName, REPLICATION_FULL_TABLE, REPLICATION_INCREMENTAL,
            REPLICATION_LOG_BASED}
    /\ replication_key \in {NoName, RK}
    \* a timestamp-typed key is drawn for the streams that derive their
    \* method from the key
    /\ rk_is_datetime \in
           (IF replication_key # NoName /\ forced_replication_method = NoName
            THEN BOOLEAN ELSE {FALSE})
    /\ is_sorted \in BOOLEAN
    /\ state_msg_frequency \in 1..MaxFreq
    /\ max_records_limit \in {None} \cup {Some(l) : l \in 0..MaxLimit}
    /\ partitions_override \in Overrides
    /\ clock = 1
    /\ tap_state \in {ts \in SeedTrees :
                          rk_is_datetime => SeedNotAfter(ts, clock)}
    /\ seed_state = tap_state
    /\ pc = "NotStarted"
    /\ error = "None"
    /\ error_row = 0
    /\ partitions = << >>
    /\ part_idx = 0
    /\ rows_sent = 0
    /\ pulled = 0
    /\ out = << >>
    /\ signpost_first = [k \in Keys |-> None]
    /\ signpost_last = [k \in Keys |-> None]
    /\ finalized = {}
    /\ primary_keys = <<"id">>
    /\ tap_input_catalog = None

\* --------------------------------------------------------------- actions
\* Stream.sync up to the partition loop of _sync_records
Sync ==
    /\ pc = "NotStarted"
    /\ out' = Append(out, SchemaMessage)
    /\ rows_sent' = 0
    /\ partitions' = IF StreamPartitions(tap_state) # << >>
                     THEN StreamPartitions(tap_state)
                     ELSE <<NoName>>
    /\ part_idx' = 1
    /\ pc' = "partition"
    /\ UNCHANGED <<config, tap_state, clock, error, error_row, pulled,
                   signpost_first, signpost_last, finalized>>

\* variant: the partition loop starts without resetting the markers
BeginPartition_NoReset ==
    /\ pc = "partition"
    /\ part_idx <= Len(partitions)
    /\ tap_state' = EnsureState(tap_state, partition)
    /\ pc' = "records"
    /\ UNCHANGED <<config, clock, error, error_row, partitions, part_idx,
                   rows_sent, pulled, out, signpost_first, signpost_last,
                   finalized>>

\* _sync_records: head of the partition loop, the markers are reset
BeginPartition ==
    /\ pc = "partition"
    /\ part_idx <= Len(partitions)
    /\ LET ts1 == EnsureState(tap_state, partition)
           state == get_stream_or_partition_state(ts1, partition)
       IN  tap_state' = WriteState(ts1, partition,
                                   reset_state_progress_markers(state))
    /\ pc' = "records"
    /\ UNCHANGED <<config, clock, error, error_row, partitions, part_idx,
                   rows_sent, pulled, out, signpost_first, signpost_last,
                   finalized>>

\* variant: the row number reported counts from 0
SortErrorRow_ZeroBased == rows_sent

\* the row number of the "Sorting error detected on row #..." log line
SortErrorRow == rows_sent + 1

\* variant: the partition is left without the finalize call
FinalizeAt_Skipped(ts, p) == ts

\* finalize_state_progress_markers(state) on the partition's entry
FinalizeAt(ts, p) ==
    WriteState(ts, p, finalize_state_progress_markers(
                          get_stream_or_partition_state(ts, p)))

\* variant: the cap test lets one row too many through
LimitReached_OffByOne ==
    max_records_limit # None /\ rows_sent > Val(max_records_limit)

\* is the record cap reached when a row arrives
LimitReached ==
    max_records_limit # None /\ rows_sent >= Val(max_records_limit)

\* variant: a state message after every Nth record
FlushDue_EveryNth == rows_sent # 0 /\ rows_sent % state_msg_frequency = 0

\* is a state message due before the next record message
FlushDue == rows_sent # 0 /\ (rows_sent - 1) % state_msg_frequency = 0

\* is utc_now() read while this row is processed
ReadsClock(row_dict) ==
    ~LimitReached /\ ReachesIncrement(row_dict) /\ is_timestamp_replication_key

\* variant: the record message is written after the bookmark was advanced,
\* so a row that raises is not written
ProcessRow_EmitAfterAdvance(row_dict, now) ==
    /\ pc = "records"
    /\ pulled < MaxRecords
    /\ pulled' = pulled + 1
    /\ now >= clock
    /\ ReadsClock(row_dict) \/ now = clock
    /\ clock' = now
    /\ IF LimitReached
       THEN /\ pc' = "failed"
            /\ error' = "MaxRecordsLimitException"
            /\ UNCHANGED <<tap_state, error_row, rows_sent, out,
                           signpost_first, signpost_last>>
       ELSE LET out1 == IF FlushDue THEN _write_state_message(out, tap_state)
                        ELSE out
                out2 == _write_record_message(out1, partition, row_dict)
                r == _increment_stream_state(tap_state, row_dict, partition, now)
                sp == get_replication_key_signpost(partition, now)
            IN  /\ out' = IF r.error = "None" THEN out2 ELSE out1
                /\ tap_state' = r.tap_state
                /\ IF ReachesIncrement(row_dict)
                   THEN /\ signpost_first' =
                               IF signpost_first[partition] = None /\ sp # None
                               THEN [signpost_first EXCEPT ![partition] = sp]
                               ELSE signpost_first
                        /\ signpost_last' = [signpost_last EXCEPT ![partition] = sp]
                   ELSE UNCHANGED <<signpost_first, signpost_last>>
                /\ IF r.error = "None"
                   THEN /\ rows_sent' = rows_sent + 1
                        /\ UNCHANGED <<pc, error, error_row>>
                   ELSE /\ pc' = "failed"
                        /\ error' = r.error
                        /\ error_row' =
                               IF r.error = "InvalidStreamSortException"
                               THEN SortErrorRow ELSE error_row
                        /\ UNCHANGED rows_sent
    /\ UNCHANGED <<config, partitions, part_idx, finalized>>

\* _sync_records: the body of the record loop for one row of get_records;
\* `now` is what utc_now() returns if the body reads it
ProcessRow(row_dict, now) ==
    /\ pc = "records"
    /\ pulled < MaxRecords
    /\ pulled' = pulled + 1
    /\ now >= clock
    /\ ReadsClock(row_dict) \/ now = clock
    /\ clock' = now
    /\ IF LimitReached
       THEN /\ pc' = "failed"
            /\ error' = "MaxRecordsLimitException"
            /\ UNCHANGED <<tap_state, error_row, rows_sent, out,
                           signpost_first, signpost_last>>
       ELSE LET out1 == IF FlushDue THEN _write_state_message(out, tap_state)
                        ELSE out
                out2 == _write_record_message(out1, partition, row_dict)
                r == _increment_stream_state(tap_state, row_dict, partition, now)
                sp == get_replication_key_signpost(partition, now)
            IN  /\ out' = out2
                /\ tap_state' = r.tap_state
                /\ IF ReachesIncrement(row_dict)
                   THEN /\ signpost_first' =
                               IF signpost_first[partition] = None /\ sp # None
                               THEN [signpost_first EXCEPT ![partition] = sp]
                               ELSE signpost_first
                        /\ signpost_last' = [signpost_last EXCEPT ![partition] = sp]
                   ELSE UNCHANGED <<signpost_first, signpost_last>>
                /\ IF r.error = "None"
                   THEN /\ rows_sent' = rows_sent + 1
                        /\ UNCHANGED <<pc, error, error_row>>
                   ELSE /\ pc' = "failed"
                        /\ error' = r.error
                        /\ error_row' =
                               IF r.error = "InvalidStreamSortException"
                               THEN SortErrorRow ELSE error_row
                        /\ UNCHANGED rows_sent
    /\ UNCHANGED <<config, partitions, part_idx, finalized>>

\* get_records raises instead of yielding a row
GetRecordsRaises ==
    /\ pc = "records"
    /\ pc' = "failed"
    /\ error' = "SourceError"
    /\ UNCHANGED <<config, tap_state, clock, error_row, partitions, part_idx,
                   rows_sent, pulled, out, signpost_first, signpost_last,
                   finalized>>

\* variant: the loop passes over the partition that follows
EndPartition_SkipsNext ==
    /\ pc = "records"
    /\ tap_state' = FinalizeAt(tap_state, partition)
    /\ finalized' = finalized \cup {partition}
    /\ part_idx' = part_idx + 2
    /\ pc' = "partition"
    /\ UNCHANGED <<config, clock, error, error_row, partitions, rows_sent,
                   pulled, out, signpost_first, signpost_last>>

\* _sync_records: get_records is exhausted, the partition is finalized
EndPartition ==
    /\ pc = "records"
    /\ tap_state' = FinalizeAt(tap_state, partition)
    /\ finalized' = finalized \cup {partition}
    /\ part_idx' = part_idx + 1
    /\ pc' = "partition"
    /\ UNCHANGED <<config, clock, error, error_row, partitions, rows_sent,
                   pulled, out, signpost_first, signpost_last>>

\* variant: the sync ends without the final state message
Finish_Silent ==
    /\ pc = "partition"
    /\ part_idx > Len(partitions)
    /\ pc' = "done"
    /\ UNCHANGED <<config, tap_state, clock, error, error_row, partitions,
                   part_idx, rows_sent, pulled, out, signpost_first,
                   signpost_last, finalized>>

\* _sync_records: after the partition loop, the final state message
Finish ==
    /\ pc = "partition"
    /\ part_idx > Len(partitions)
    /\ out' = _write_state_message(out, tap_state)
    /\ pc' = "done"
    /\ UNCHANGED <<config, tap_state, clock, error, error_row, partitions,
                   part_idx, rows_sent, pulled, signpost_first, signpost_last,
                   finalized>>

\* Stream.apply_catalog, called by the tap before the stream is synced
apply_catalog(catalog_entry) ==
    /\ pc = "NotStarted"
    /\ tap_input_catalog' = Some(catalog_entry)
    /\ IF catalog_entry.present
       THEN /\ primary_keys' = catalog_entry.key_properties
            /\ replication_key' = catalog_entry.replication_key
            /\ forced_replication_method' =
                   IF catalog_entry.replication_method # NoName
                   THEN catalog_entry.replication_method
                   ELSE forced_replication_method
       ELSE UNCHANGED <<primary_keys, replication_key,
                        forced_replication_method>>
    /\ UNCHANGED <<rk_is_datetime, is_sorted, state_msg_frequency,
                   max_records_limit, partitions_override, tap_state,
                   seed_state, clock, pc, error, error_row, partitions,
                   part_idx, rows_sent, pulled, out, signpost_first,
                   signpost_last, finalized>>

Next ==
    \/ Sync
    \/ BeginPartition
    \/ \E row_dict \in Rows, now \in 1..MaxClock : ProcessRow(row_dict, now)
    \/ GetRecordsRaises
    \/ EndPartition
    \/ Finish

Spec == Init /\ [][Next]_vars

\* Spec is the sync of a stream whose settings are those Init draws;
\* CatalogSpec below is the step before it, where the tap applies its input
\* catalog to the settings.
\* the scheduler keeps running the sync while a step is possible
FairSpec == Spec /\ WF_vars(Next)

\* the tap constructs the stream and applies the input catalog to it
CatalogNext == \E catalog_entry \in CatalogEntries : apply_catalog(catalog_entry)

CatalogSpec == Init /\ [][CatalogNext]_vars

TypeOK == pc \in {"NotStarted", "partition", "records", "done", "failed"}

\* ---------------------------------------------------- reading the output
IsRecord(m) == m.type = "RECORD"
IsState(m) == m.type = "STATE"

\* number of record messages among the first n messages
RECURSIVE RecordsIn(_, _)
RecordsIn(o, n) ==
    IF n = 0 THEN 0
    ELSE RecordsIn(o, n - 1) + (IF IsRecord(o[n]) THEN 1 ELSE 0)

NumRecords == RecordsIn(out, Len(out))

\* the rows of the record messages emitted, in order
RowsOut ==
    LET recs == SelectSeq(out, IsRecord)
    IN  [i \in 1..Len(recs) |-> recs[i].record]

StateIndices == {i \in 1..Len(out) : IsState(out[i])}

\* the progress-marker maximum and the durable value of an entry
MarkerOf(ts, k) == ReadState(ts, k).progress_markers.replication_key_value
DurableOf(ts, k) == ReadState(ts, k).replication_key_value

Incremental ==
    /\ replication_method \in {REPLICATION_INCREMENTAL, REPLICATION_LOG_BASED}
    /\ replication_key # NoName

\* a step that handed a record message to the sink
EmitsRecord == Len(out') > Len(out) /\ IsRecord(out'[Len(out')])
EmittedRow == out'[Len(out')].record

\* ---------------------------------------------------------------- claims

\* C1: on a sorted stream a row raises the ordering error exactly when its
\* replication-key value is lower than the open partition's progress-marker
\* maximum (so non-decreasing values raise none); the error ends the sync,
\* and the row number reported is the row's 1-based position among the rows
\* pulled.
C1_Step ==
    /\ error = "InvalidStreamSortException" => UNCHANGED vars
    /\ (is_sorted /\ Incremental /\ EmitsRecord) =>
        LET M == MarkerOf(tap_state, partition)
            lower == /\ EmittedRow # EmptyRow
                     /\ M # None
                     /\ Val(EmittedRow) < Val(M)
        IN  /\ lower <=> error' = "InvalidStreamSortException"
            /\ lower => /\ pc' = "failed"
                        /\ error_row' = pulled'
            /\ ~lower => pc' = "records"

C1_OrderingError == [][C1_Step]_vars

C1_Witness ==
    /\ error = "InvalidStreamSortException"
    /\ error_row = 3
    /\ RowsOut = <<Some(1), Some(2), Some(1)>>

\* C2: the progress-marker maximum and the durable value of a partition
\* never exceed the signpost value frozen for it in this pass (the value
\* its first signpost call returned).
C2_WithinFrozenSignpost ==
    \A k \in Keys :
        signpost_first[k] # None =>
            /\ MarkerOf(tap_state, k) # None =>
                   Val(MarkerOf(tap_state, k)) <= Val(signpost_first[k])
            /\ DurableOf(tap_state, k) # None =>
                   Val(DurableOf(tap_state, k)) <= Val(signpost_first[k])

\* C3: every call of get_replication_key_signpost for one partition in one
\* pass returns the value the first call returned.
C3_SignpostFrozen ==
    \A k \in Keys :
        signpost_first[k] # None => signpost_last[k] = signpost_first[k]

\* the partitions that have a record message before message i
PartitionsBefore(i) == {out[j].partition : j \in {n \in 1..(i - 1) : IsRecord(out[n])}}

LastStateIndex == CHOOSE i \in StateIndices : \A j \in StateIndices : j <= i

Ended == pc \in {"done", "failed"}

\* C4 (as claimed): no state message, intermediate or final, holds progress
\* markers of a partition this sync has been working on.
C4_NoMarkersInStateMessages ==
    \A i \in StateIndices : \A k \in PartitionsBefore(i) :
        MarkerOf(out[i].value, k) = None

\* C4 (amended): the final state message holds no progress markers for any
\* partition the sync processed; an intermediate flush emits the tree as it
\* stands, so on an incremental stream without ceiling it holds the markers
\* of the open partition when the record before it was a record of that
\* partition.
C4_OnlyFinalStateWithoutMarkers ==
    /\ pc = "done" =>
           /\ IsState(out[Len(out)])
           /\ \A j \in 1..Len(partitions) :
                  MarkerOf(out[Len(out)].value, partitions[j]) = None
    /\ \A i \in StateIndices :
           (/\ i < Len(out)
            /\ IsRecord(out[i - 1])
            /\ out[i - 1].partition = out[i + 1].partition
            /\ Incremental /\ ~is_timestamp_replication_key)
           => MarkerOf(out[i].value, out[i + 1].partition) # None

C4_Witness ==
    /\ pc = "done"
    /\ \E i \in StateIndices :
           /\ i < Len(out)
           /\ MarkerOf(out[i].value, out[i + 1].partition) # None

\* C5: once the run has ended, cleanly or not, the last state message emitted
\* carries for every partition the bookmark value promoted by its finalize,
\* or the seeded value if the partition was not finalized.
C5_LastStateIsFinalizedProgress ==
    (Ended /\ StateIndices # {}) =>
        \A k \in Keys :
            DurableOf(out[LastStateIndex].value, k) =
                IF k \in finalized THEN DurableOf(tap_state, k)
                ELSE DurableOf(seed_state, k)

\* C6: a sync aborted by an error of get_records or by the record cap has
\* emitted, as its last message, a state message with the state at the abort.
C6_FinalStateAfterAbort ==
    (pc = "failed" /\ error \in {"SourceError", "MaxRecordsLimitException"}) =>
        /\ IsState(out[Len(out)])
        /\ out[Len(out)].value = tap_state

StatesAfterLastRecord ==
    {i \in StateIndices : \A j \in (i + 1)..Len(out) : ~IsRecord(out[j])}

\* C8: a sync that meets no error is complete when the loop over its
\* partitions is; the last message it has then emitted is a state message,
\* the only one after the last record message, and it carries the state as
\* it is after the finalize of every partition: the finalized bookmark of
\* each partition and no progress markers.
C8_AtDone ==
    pc = "done" =>
        /\ error = "None"
        /\ IsState(out[Len(out)])
        /\ StatesAfterLastRecord = {Len(out)}
        /\ out[Len(out)].value = tap_state
        /\ \A j \in 1..Len(partitions) :
               /\ partitions[j] \in finalized
               /\ MarkerOf(out[Len(out)].value, partitions[j]) = None
               /\ DurableOf(out[Len(out)].value, partitions[j]) =
                      DurableOf(tap_state, partitions[j])

\* C8: every sync over finite record sequences ends, and ends as C8_AtDone
\* says unless an error ended it.
C8_FinalStateMessage == [](C8_AtDone) /\ <>(Ended)

C8_Witness ==
    /\ pc = "done"
    /\ state_msg_frequency = 2
    /\ Len(partitions) = 2
    /\ NumRecords = 3
    /\ IsRecord(out[Len(out) - 1])
    /\ DurableOf(tap_state, "b") = Some(2)

\* C9: with a record cap L, no more than L record messages are emitted over
\* all partitions, and the limit error is raised exactly when get_records
\* yields row L+1 of the stream; without a cap it is never raised.
C9_RecordCap ==
    IF max_records_limit = None
    THEN error # "MaxRecordsLimitException"
    ELSE /\ NumRecords <= Val(max_records_limit)
         /\ pulled > Val(max_records_limit) <=>
                error = "MaxRecordsLimitException"
         /\ error = "MaxRecordsLimitException" =>
                /\ pc = "failed"
                /\ pulled = Val(max_records_limit) + 1
                /\ NumRecords = Val(max_records_limit)
                /\ error # "InvalidStreamSortException"

C9_Witness ==
    /\ max_records_limit = Some(1)
    /\ error = "MaxRecordsLimitException"
    /\ part_idx = 2
    /\ NumRecords = 1

\* C10: on a FULL_TABLE stream (forced FULL_TABLE, or no forced method and no
\* replication key) no step records a replication key, a value or a progress
\* marker in any bookmark entry, so an entry seeded empty stays empty, while
\* every row pulled below the cap is emitted as a record message.
FullTableConfigured ==
    \/ forced_replication_method = REPLICATION_FULL_TABLE
    \/ forced_replication_method = NoName /\ replication_key = NoName

C10_FullTableNoBookmark ==
    FullTableConfigured =>
        /\ \A k \in Keys :
               /\ ReadState(tap_state, k).replication_key =
                      ReadState(seed_state, k).replication_key
               /\ DurableOf(tap_state, k) = DurableOf(seed_state, k)
               /\ MarkerOf(tap_state, k) \in {None, MarkerOf(seed_state, k)}
        /\ NumRecords = rows_sent
        /\ error \in {"None", "SourceError", "MaxRecordsLimitException"}
        /\ error # "MaxRecordsLimitException" => NumRecords = pulled

C10_Witness ==
    /\ FullTableConfigured
    /\ pc = "done"
    /\ partitions = <<NoName>>
    /\ NumRecords = 3
    /\ ReadState(tap_state, NoName) = EmptyState

\* C11: the bookmark entries of one stream's partitions are independent: a
\* step of the sync changes no entry but the one of the partition it works
\* on, and the entry of a finalized partition is the same after every later
\* step, an ordering error of a later partition included, as it was right
\* after its finalize.
C11_Step ==
    \A k \in Keys :
        (part_idx > Len(partitions) \/ k # partition \/ k \in finalized) =>
            ReadState(tap_state', k) = ReadState(tap_state, k)

C11_PartitionsIndependent == [][pc # "NotStarted" => C11_Step]_vars

C11_Witness ==
    /\ error = "InvalidStreamSortException"
    /\ partition = "b"
    /\ "a" \in finalized
    /\ DurableOf(seed_state, "a") = Some(1)
    /\ DurableOf(tap_state, "a") = Some(2)
    /\ MarkerOf(tap_state, "b") = Some(2)

\* C12: the sync of this stream changes only this stream's entry of the
\* shared state tree: whatever steps it has taken, completed or aborted, the
\* entry of every other stream is as it was when the sync started.
OtherStreams == DOMAIN seed_state \ {"this"}

C12_OtherStreamsUntouched ==
    /\ OtherStreams # {}
    /\ \A n \in OtherStreams : tap_state[n] = seed_state[n]

C12_Witness ==
    /\ Ended
    /\ tap_state.this # seed_state.this
    /\ tap_state.other = SeedOther
    /\ rows_sent >= 2

\* the method asks for a bookmark and no replication key is configured
KeyRequiredButMissing ==
    /\ replication_method \in {REPLICATION_INCREMENTAL, REPLICATION_LOG_BASED}
    /\ replication_key = NoName

\* C13: with method INCREMENTAL or LOG_BASED and no replication key, the
\* advance on a record raises the configuration error (and it is raised in
\* no other case); _sync_records does not catch it: the sync has failed, the
\* state tree is as it was before the record, the record is not counted, and
\* no step follows.
C13_Step ==
    /\ error = "ValueError" => UNCHANGED vars
    /\ error' = "ValueError" => KeyRequiredButMissing
    /\ (KeyRequiredButMissing /\ EmitsRecord) =>
           /\ error' = "ValueError"
           /\ pc' = "failed"
           /\ tap_state' = tap_state
           /\ rows_sent' = rows_sent

AcceptedValues(k) ==
    {Val(out[j].record) :
        j \in {n \in 1..Len(out) :
                  /\ IsRecord(out[n])
                  /\ out[n].partition = k
                  /\ \/ signpost_first[k] = None
                     \/ Val(out[n].record) <= Val(signpost_first[k])}}

SetMax(S) == CHOOSE m \in S : \A x \in S : x <= m

\* C14: a partition's progress-marker maximum is promoted to its durable
\* replication_key_value, and the marker discarded, exactly when its records
\* are exhausted without error: a finalized partition holds no marker and
\* its durable value is the largest value, not above the ceiling, among its
\* records of this pass (its seeded value if there was none, or if the
\* stream keeps no bookmark); a partition not finalized, open or ended by an
\* error, has its seeded durable value.
C14_PromotionAtExhaustion ==
    \A k \in Keys :
        IF k \in finalized
        THEN /\ MarkerOf(tap_state, k) = None
             /\ DurableOf(tap_state, k) =
                    IF Incremental /\ AcceptedValues(k) # {}
                    THEN Some(SetMax(AcceptedValues(k)))
                    ELSE DurableOf(seed_state, k)
        ELSE DurableOf(tap_state, k) = DurableOf(seed_state, k)

\* the positions in the output of the records of partition k
RecordIndices(k) ==
    {n \in 1..Len(out) : IsRecord(out[n]) /\ out[n].partition = k}

\* C15: the progress markers of a partition are empty when its first record
\* is pulled, whatever the seeded state held: while the open partition has
\* no record yet its entry holds no marker, and an ordering error is raised
\* only for a record below an earlier record of the same partition in this
\* pass, never for one below a marker left in the seed.
C15_MarkersResetBeforeFirstRecord ==
    /\ (pc = "records" /\ RecordIndices(partition) = {}) =>
           MarkerOf(tap_state, partition) = None
    /\ error = "InvalidStreamSortException" =>
           /\ IsRecord(out[Len(out)])
           /\ \E n \in RecordIndices(out[Len(out)].partition) :
                  /\ n < Len(out)
                  /\ Val(out[n].record) > Val(out[Len(out)].record)

C15_Witness ==
    /\ is_sorted /\ Incremental
    /\ MarkerOf(seed_state, "a") = Some(2)
    /\ pc = "records"
    /\ partition = "a"
    /\ RowsOut = <<Some(1)>>
    /\ rows_sent = 1
    /\ error = "None"
    /\ MarkerOf(tap_state, "a") = Some(1)

\* C16: the record message of a row is written before the bookmark is
\* advanced for it: when the advance of the k-th row pulled raises an
\* ordering or a configuration error, k record messages have been written,
\* the last of them for that row, and k-1 rows are counted as sent; while no
\* such error has been raised every record written is counted.
C16_EmitBeforeAdvance ==
    IF error \in {"InvalidStreamSortException", "ValueError"}
    THEN /\ IsRecord(out[Len(out)])
         /\ NumRecords = pulled
         /\ rows_sent = pulled - 1
    ELSE NumRecords = rows_sent

C16_Witness ==
    /\ error = "InvalidStreamSortException"
    /\ pulled = 3
    /\ NumRecords = 3
    /\ rows_sent = 2
    /\ out[Len(out)] = RecordMessage("b", Some(1))

\* the position of partition k in the list the loop runs over
PositionOf(k) == CHOOSE j \in 1..Len(partitions) : partitions[j] = k

\* C17: the partitions are processed one after the other in the order of
\* the list: the record messages come grouped by partition in list order;
\* every partition before the loop's position is finalized; every partition
\* after it is untouched (no record, not finalized, entry as seeded, so its
\* markers are not yet reset); the partition at the position is not
\* finalized and is untouched until its reset.
C17_PartitionsSequential ==
    pc # "NotStarted" =>
        /\ \A i, j \in {n \in 1..Len(out) : IsRecord(out[n])} :
               i < j => PositionOf(out[i].partition) <= PositionOf(out[j].partition)
        /\ \A j \in 1..Len(partitions) :
               LET k == partitions[j]
                   untouched == /\ RecordIndices(k) = {}
                                /\ ReadState(tap_state, k) = ReadState(seed_state, k)
               IN  /\ j < part_idx => k \in finalized
                   /\ j >= part_idx => k \notin finalized
                   /\ j > part_idx => untouched
                   /\ (j = part_idx /\ pc = "partition") => untouched

C17_Witness ==
    /\ pc = "done"
    /\ partitions = <<"a", "b">>
    /\ MarkerOf(seed_state, "a") = Some(2)
    /\ RowsOut = <<Some(2), Some(1), Some(2)>>
    /\ Cardinality(RecordIndices("a")) = 1
    /\ Cardinality(RecordIndices("b")) = 2
    /\ finalized = {"a", "b"}

\* the contexts of the partitions the seeded state holds for this stream
SeededContexts ==
    [i \in 1..Len(seed_state.this.partitions) |->
        seed_state.this.partitions[i].context]

\* C18 (as claimed): the partition set is the explicit contexts when the
\* stream supplies any, otherwise the contexts held in the seeded state when
\* it holds any, otherwise the single implicit partition None.
C18_PartitionCascade ==
    pc # "NotStarted" =>
        partitions =
            IF partitions_override.overridden /\ partitions_override.list # << >>
            THEN partitions_override.list
            ELSE IF SeededContexts # << >> THEN SeededContexts
            ELSE <<NoName>>

\* C18 (amended): a stream that supplies its own partition list syncs that
\* list when it is not empty and the single implicit partition None when it
\* is empty, whatever the state holds; a stream that supplies none syncs the
\* contexts held in the seeded state, or None when there are none.  The
\* bookmark of the implicit partition is the stream-level state entry: the
\* sync leaves the partition entries of the state as seeded.
C18_PartitionSet ==
    pc # "NotStarted" =>
        /\ partitions =
               IF partitions_override.overridden
               THEN IF partitions_override.list # << >>
                    THEN partitions_override.list ELSE <<NoName>>
               ELSE IF SeededContexts # << >> THEN SeededContexts
                    ELSE <<NoName>>
        /\ partitions = <<NoName>> =>
               /\ get_stream_or_partition_state(tap_state, NoName) =
                      tap_state.this.state
               /\ tap_state.this.partitions = seed_state.this.partitions

C18_Witness ==
    /\ partitions_override.overridden
    /\ partitions_override.list = << >>
    /\ SeededContexts = <<"a", "b">>
    /\ partitions = <<NoName>>
    /\ pc = "done"
    /\ NumRecords = 2
    /\ tap_state.this.state.replication_key_value = Some(2)

\* C19: apply_catalog replaces the primary keys, the replication key and
\* the forced replication method by what the catalog entry declares and
\* leaves alone every setting the entry does not declare; without an entry,
\* or with an entry declaring neither replication setting, the replication
\* method of the stream is what it was.
C19_Step ==
    (pc = "NotStarted" /\ tap_input_catalog' # None) =>
        LET e == Val(tap_input_catalog')
        IN  /\ primary_keys' =
                   IF e.present /\ e.key_properties # None
                   THEN e.key_properties ELSE primary_keys
            /\ replication_key' =
                   IF e.present /\ e.replication_key # NoName
                   THEN e.replication_key ELSE replication_key
            /\ forced_replication_method' =
                   IF e.present /\ e.replication_method # NoName
                   THEN e.replication_method ELSE forced_replication_method
            /\ (e.replication_key = NoName /\ e.replication_method = NoName)
                   => replication_method' = replication_method

C19_CatalogOverridesDeclaredOnly == [][C19_Step]_vars

\* is value v of partition k known from the seed or from a record message
\* written before position i of the output
SeededOrEmittedBefore(v, k, i) ==
    \/ v = None
    \/ v \in {DurableOf(seed_state, k), MarkerOf(seed_state, k)}
    \/ \E j \in RecordIndices(k) : j < i /\ out[j].record = v

\* C20: the state never runs ahead of the output: in every state message
\* written, the durable value and the progress-marker value of every
\* partition are either as seeded or the replication-key value of a record
\* of that partition whose record message was written earlier in the run.
C20_StateNotAheadOfOutput ==
    \A i \in StateIndices : \A k \in Keys :
        /\ SeededOrEmittedBefore(DurableOf(out[i].value, k), k, i)
        /\ SeededOrEmittedBefore(MarkerOf(out[i].value, k), k, i)

C20_Witness ==
    /\ pc = "done"
    /\ DurableOf(seed_state, "b") = None
    /\ \E i \in StateIndices :
           /\ i < Len(out)
           /\ MarkerOf(out[i].value, "b") = Some(1)
           /\ out[i - 1] = RecordMessage("b", Some(1))
    /\ DurableOf(out[Len(out)].value, "b") = Some(2)
    /\ out[Len(out) - 1] = RecordMessage("b", Some(2))

====
